---- MODULE Spec2Model ----
(***************************************************************************)
(* Model of the radiation alert block of src/radiacao.py.                  *)
(*                                                                         *)
(* The state is the set of MyHDL signals of test_radiation_alert and the   *)
(* internal signal log_index of RadiationAlertSystem.  One Tick is the     *)
(* stimulus driving radiation_level followed by one evaluation of          *)
(* check_radiation.  Inside an evaluation a read of a signal (x) yields    *)
(* the value the signal holds when the evaluation starts and a write       *)
(* (x.next = e) becomes the value of the signal only after the evaluation: *)
(* unprimed variables are the values read, primed variables the values     *)
(* written.  A signal that is not assigned keeps its value.                *)
(***************************************************************************)
EXTENDS Integers, FiniteSets, Sequences, TLC

(* ---------------- configuration (program constants) -------------------- *)

\* limit = Signal(intbv(100)[8:])
limit == 100

\* critical_limit = limit + 50, evaluated once when the block is built
critical_limit == limit + 50

\* max_exposure_time = 3
max_exposure_time == 3

\* radiation_level = Signal(intbv(0)[8:]): values 0 .. 2^8 - 1
radiation_level_max == 256

\* accumulated_radiation = Signal(intbv(0)[16:]): .max is the EXCLUSIVE
\* upper bound 2^16 of the intbv, the largest value it holds is .max - 1
accumulated_radiation_max == 65536

\* exposure_time = Signal(intbv(0)[4:]): .max is 2^4
exposure_time_max == 16

\* len(event_radiation_log): the logs are lists of 10 signals
LogCapacity == 10

\* radiation_levels = [45, 75, 150, 90, 200, 50, 110, 160, 40, 180]
radiation_levels == << 45, 75, 150, 90, 200, 50, 110, 160, 40, 180 >>

\* max_cycles = 30
max_cycles == 30

\* alert_mode: 0 = seguro, 1 = alerta moderado, 2 = alerta critico
Safe == 0
Moderate == 1
Critical == 2

(* ---------------- bounds of the model ---------------------------------- *)

\* number of ticks applied along one behaviour
MaxTicks == 5

\* the readings applied: both sides of limit and of critical_limit, the ends
\* of the 8-bit range, and 1 (the smallest reading that changes the sum)
Readings == {0, 1, 100, 101, 150, 151, 255}

LogSlots == 0 .. (LogCapacity - 1)

VARIABLES
    radiation_level,        \* input signal, driven by the stimulus
    alert,                  \* 1-bit output
    alert_mode,             \* 2-bit output
    exposure_time,          \* 4-bit counter
    accumulated_radiation,  \* 16-bit accumulator
    event_radiation_log,    \* LogSlots -> 8-bit value
    event_alert_log,        \* LogSlots -> 2-bit value
    protection_mode,        \* 1-bit output
    log_index,              \* write cursor of the two logs
    count,                  \* number of readings applied so far
    raised,                 \* TRUE once an evaluation has raised ValueError
    stimulus,               \* the generator stimulus: "running", "stopped",
                            \* or "none" when the readings are applied by a
                            \* caller other than the reference stimulus
    trip_entries            \* history: the pairs written to the logs, in order

vars == << radiation_level, alert, alert_mode, exposure_time,
           accumulated_radiation, event_radiation_log, event_alert_log,
           protection_mode, log_index, count, raised, stimulus,
           trip_entries >>

signals == << alert, alert_mode, exposure_time, accumulated_radiation,
              event_radiation_log, event_alert_log, protection_mode,
              log_index >>

(* ---------------- the steps of check_radiation ------------------------- *)

\* variants of the accumulation with a slip in the guard
NextAccumulated_NoClamp(acc, rl) == acc + rl

NextAccumulated_Wrap(acc, rl) == (acc + rl) % accumulated_radiation_max

NextAccumulated_ClampEarly(acc, rl) ==
    IF acc + rl < accumulated_radiation_max - 1
    THEN acc + rl
    ELSE accumulated_radiation_max - 2

\* variant that stores the reading instead of adding it
NextAccumulated_Overwrite(acc, rl) == rl

\* variant that keeps only the low 8 bits of the sum
NextAccumulated_Wrap8(acc, rl) == (acc + rl) % 256

\* lines 24-28: the guarded accumulation
NextAccumulated(acc, rl) ==
    LET new_accumulated == acc + rl
    IN  IF new_accumulated < accumulated_radiation_max
        THEN new_accumulated
        ELSE accumulated_radiation_max - 1

\* variant of the classification with inclusive comparisons
NextAlertMode_Inclusive(rl) ==
    IF rl >= critical_limit THEN Critical
    ELSE IF rl >= limit THEN Moderate
    ELSE Safe

\* lines 30-36: alert_mode.next, from the reading alone
NextAlertMode(rl) ==
    IF rl > critical_limit THEN Critical
    ELSE IF rl > limit THEN Moderate
    ELSE Safe

\* variant that switches protection on in the elif branch too
NextProtectionMode_OnModerate(rl, pm) ==
    IF rl > limit THEN 1 ELSE 0

\* variant whose else branch does not switch protection off
NextProtectionMode_NoReset(rl, pm) ==
    IF rl > critical_limit THEN 1 ELSE pm

\* lines 30-37: protection_mode.next; the elif branch does not assign it,
\* so the signal keeps the value pm it holds
NextProtectionMode(rl, pm) ==
    IF rl > critical_limit THEN 1
    ELSE IF rl > limit THEN pm
    ELSE 0

\* variant of the exposure timer that never resets
NextExposureTime_NoReset(am, et) ==
    IF am # Safe THEN et + 1 ELSE et

\* lines 39-42: the value assigned to exposure_time.next; the condition reads
\* the signal alert_mode (am), not alert_mode.next
NextExposureTime(am, et) ==
    IF am # Safe THEN et + 1 ELSE 0

\* an intbv signal rejects a .next value outside [0, .max): ValueError
ExposureInBounds(v) == v >= 0 /\ v < exposure_time_max

\* variant of the trip test with a strict comparison of the accumulator
Trips_Strict(et, acc) ==
    et >= max_exposure_time \/ acc > 300

\* variant of the trip test with "and" in place of "or"
Trips_And(et, acc) ==
    et >= max_exposure_time /\ acc >= 300

\* line 44: the trip test, on the signals exposure_time (et) and
\* accumulated_radiation (acc) as read
Trips(et, acc) ==
    et >= max_exposure_time \/ acc >= 300

\* lines 45 and 50: alert.next
NextAlert(trip) == IF trip THEN 1 ELSE 0

\* lines 44, 46: event_radiation_log[int(log_index)].next = int(radiation_level),
\* in the branch of the trip test only
NextRadiationLog(lg, idx, rl, trip) ==
    IF trip THEN [lg EXCEPT ![idx] = rl] ELSE lg

\* lines 44, 47: event_alert_log[int(log_index)].next = int(alert_mode), in the
\* branch of the trip test only; am is the signal alert_mode as read
NextAlertLog(lg, idx, am, trip) ==
    IF trip THEN [lg EXCEPT ![idx] = am] ELSE lg

\* variant of the cursor update placed outside the branch of the trip test
NextLogIndex_Unconditional(idx, trip) == (idx + 1) % LogCapacity

\* variant of the cursor update that does not advance
NextLogIndex_Stuck(idx, trip) == idx

\* variant of the cursor update without the modulo
NextLogIndex_NoWrap(idx, trip) ==
    IF trip THEN idx + 1 ELSE idx

\* lines 44, 48: log_index.next = (log_index + 1) % len(event_radiation_log),
\* in the branch of the trip test only
NextLogIndex(idx, trip) ==
    IF trip THEN (idx + 1) % LogCapacity ELSE idx

(* ---------------- the tick --------------------------------------------- *)

\* variant of the evaluation whose trip test uses the values just computed
\* (exposure_time.next, accumulated_radiation.next) instead of the signals
Evaluate_TripOnNext(rl) ==
    /\ ~raised
    /\ radiation_level' = rl
    /\ IF ExposureInBounds(NextExposureTime(alert_mode, exposure_time))
       THEN /\ raised' = FALSE
            /\ accumulated_radiation' = NextAccumulated(accumulated_radiation, rl)
            /\ alert_mode' = NextAlertMode(rl)
            /\ protection_mode' = NextProtectionMode(rl, protection_mode)
            /\ exposure_time' = NextExposureTime(alert_mode, exposure_time)
            /\ LET trip == Trips(NextExposureTime(alert_mode, exposure_time),
                                 NextAccumulated(accumulated_radiation, rl))
               IN  /\ alert' = NextAlert(trip)
                   /\ event_radiation_log' =
                          NextRadiationLog(event_radiation_log, log_index,
                                           rl, trip)
                   /\ event_alert_log' =
                          NextAlertLog(event_alert_log, log_index,
                                       alert_mode, trip)
                   /\ log_index' = NextLogIndex(log_index, trip)
                   /\ trip_entries' =
                          IF trip
                          THEN Append(trip_entries, << rl, alert_mode >>)
                          ELSE trip_entries
       ELSE /\ raised' = TRUE
            /\ UNCHANGED signals
            /\ UNCHANGED trip_entries

\* The reading rl is driven on radiation_level and check_radiation is
\* evaluated once.  When line 40 computes exposure_time + 1 = 16 the
\* assignment raises ValueError: the evaluation stops there, no pending .next
\* value is ever committed and the simulation ends.
Evaluate(rl) ==
    /\ ~raised
    /\ radiation_level' = rl
    /\ IF ExposureInBounds(NextExposureTime(alert_mode, exposure_time))
       THEN /\ raised' = FALSE
            /\ accumulated_radiation' = NextAccumulated(accumulated_radiation, rl)
            /\ alert_mode' = NextAlertMode(rl)
            /\ protection_mode' = NextProtectionMode(rl, protection_mode)
            /\ exposure_time' = NextExposureTime(alert_mode, exposure_time)
            /\ LET trip == Trips(exposure_time, accumulated_radiation)
               IN  /\ alert' = NextAlert(trip)
                   /\ event_radiation_log' =
                          NextRadiationLog(event_radiation_log, log_index,
                                           rl, trip)
                   /\ event_alert_log' =
                          NextAlertLog(event_alert_log, log_index,
                                       alert_mode, trip)
                   /\ log_index' = NextLogIndex(log_index, trip)
                   /\ trip_entries' =
                          IF trip
                          THEN Append(trip_entries, << rl, alert_mode >>)
                          ELSE trip_entries
       ELSE /\ raised' = TRUE
            /\ UNCHANGED signals
            /\ UNCHANGED trip_entries

\* A caller applies one reading of its choice.
Tick(rl) ==
    /\ stimulus = "none"
    /\ count < MaxTicks
    /\ count' = count + 1
    /\ Evaluate(rl)
    /\ UNCHANGED stimulus

\* variant of the stimulus loop without the break of lines 92-94
StimulusTick_NoBreak ==
    /\ stimulus = "running"
    /\ count < max_cycles
    /\ Evaluate(radiation_levels[(count % Len(radiation_levels)) + 1])
    /\ count' = count + 1
    /\ stimulus' = IF raised' \/ ~(count' < max_cycles)
                   THEN "stopped"
                   ELSE "running"

\* lines 81-94: one turn of the loop of the reference stimulus.  It applies
\* radiation_levels[count % 10] (a Python list, indexed from 0), waits for the
\* block, counts the reading and leaves the loop when alert is set or when
\* max_cycles readings have been applied; line 96 then stops the simulation.
StimulusTick ==
    /\ stimulus = "running"
    /\ count < max_cycles
    /\ Evaluate(radiation_levels[(count % Len(radiation_levels)) + 1])
    /\ count' = count + 1
    /\ stimulus' = IF raised' \/ alert' = 1 \/ ~(count' < max_cycles)
                   THEN "stopped"
                   ELSE "running"

\* A caller applies one reading of its choice, in a session of any length that
\* is followed until the alert is set; count stops at MaxTicks.
TickLive(rl) ==
    /\ stimulus = "none"
    /\ alert = 0
    /\ Evaluate(rl)
    /\ count' = IF count < MaxTicks THEN count + 1 ELSE count
    /\ UNCHANGED stimulus

\* a tick of a reading >= 1
PositiveTick == \E rl \in Readings \ {0} : TickLive(rl)

\* a tick of the reading 0
ZeroTick == TickLive(0)

NextLive == PositiveTick \/ ZeroTick

Next == \E rl \in Readings : Tick(rl)

\* a session driven by the reference stimulus or by another caller
NextStimulus == StimulusTick \/ \E rl \in Readings : Tick(rl)

(* ---------------- initial states --------------------------------------- *)

\* every signal of test_radiation_alert is built with the value 0
Init ==
    /\ radiation_level = 0
    /\ alert = 0
    /\ alert_mode = 0
    /\ exposure_time = 0
    /\ accumulated_radiation = 0
    /\ event_radiation_log = [i \in LogSlots |-> 0]
    /\ event_alert_log = [i \in LogSlots |-> 0]
    /\ protection_mode = 0
    /\ log_index = 0
    /\ count = 0
    /\ raised = FALSE
    /\ stimulus = "none"
    /\ trip_entries = << >>

\* the same signals, with the reference stimulus attached or not (line 79:
\* count = 0)
InitStimulus ==
    /\ radiation_level = 0
    /\ alert = 0
    /\ alert_mode = 0
    /\ exposure_time = 0
    /\ accumulated_radiation = 0
    /\ event_radiation_log = [i \in LogSlots |-> 0]
    /\ event_alert_log = [i \in LogSlots |-> 0]
    /\ protection_mode = 0
    /\ log_index = 0
    /\ count = 0
    /\ raised = FALSE
    /\ stimulus \in {"none", "running"}
    /\ trip_entries = << >>

\* A state late in a long session: the state the signals hold after the 632
\* readings  617 x 100, 1 x 10, 14 x 255  applied to the all-zero state
\* (61700 + 10 + 3570 = 65280; every tick from the 4th on trips, 629 trips;
\* the last ten trips logged (255, 2); thirteen increments of exposure_time).
\* count is restarted so that MaxTicks further ticks are explored.
\* The 629 pairs written so far: trips 1..614 by the readings 100 (the
\* alert_mode read was Safe), trip 615 by the reading 10, trip 616 by the
\* first 255 (the alert_mode read was still Safe), trips 617..629 by the other
\* readings 255 (the alert_mode read was Critical).
InitLate ==
    /\ radiation_level = 255
    /\ alert = 1
    /\ alert_mode = Critical
    /\ exposure_time = 13
    /\ accumulated_radiation = 65280
    /\ event_radiation_log = [i \in LogSlots |-> 255]
    /\ event_alert_log = [i \in LogSlots |-> Critical]
    /\ protection_mode = 1
    /\ log_index = 9
    /\ count = 0
    /\ raised = FALSE
    /\ stimulus = "none"
    /\ trip_entries = [j \in 1 .. 629 |->
                          IF j <= 614 THEN << 100, Safe >>
                          ELSE IF j = 615 THEN << 10, Safe >>
                          ELSE IF j = 616 THEN << 255, Safe >>
                          ELSE << 255, Critical >>]

Spec == Init /\ [][Next]_vars

SpecLate == InitLate /\ [][Next]_vars

\* sessions of any length in which readings >= 1 keep coming
SpecLive == Init /\ [][NextLive]_vars /\ WF_vars(PositiveTick)

SpecStimulus == InitStimulus /\ [][NextStimulus]_vars

TypeOK ==
    /\ radiation_level \in 0 .. (radiation_level_max - 1)
    /\ alert \in {0, 1}
    /\ alert_mode \in {Safe, Moderate, Critical}
    /\ exposure_time \in 0 .. (exposure_time_max - 1)
    /\ accumulated_radiation \in 0 .. (accumulated_radiation_max - 1)
    /\ event_radiation_log \in [LogSlots -> 0 .. (radiation_level_max - 1)]
    /\ event_alert_log \in [LogSlots -> {Safe, Moderate, Critical}]
    /\ protection_mode \in {0, 1}
    /\ log_index \in LogSlots
    /\ count \in 0 .. max_cycles
    /\ raised \in BOOLEAN
    /\ stimulus \in {"none", "running", "stopped"}
    /\ trip_entries \in Seq((0 .. (radiation_level_max - 1))
                             \X {Safe, Moderate, Critical})

(* ======================= properties ==================================== *)

\* a step in which a tick ran to completion
TickDone == count' = count + 1 /\ ~raised'

\* the largest value the 16-bit accumulator represents
TopValue == accumulated_radiation_max - 1

\* C1: after every tick protection_mode is true exactly when the alert_mode
\* produced by that tick is Critical, also for a Moderate tick that directly
\* follows a Critical tick.
C1_ProtectionIffCritical ==
    (protection_mode = 1) <=> (alert_mode = Critical)

\* C2 as stated: the alert produced by a tick is true iff the exposure_time
\* produced by that tick is >= 3 or the accumulated_radiation produced by that
\* tick is >= 300.
C2_TripOnPostTickValues ==
    (count > 0 /\ ~raised) =>
        ((alert = 1) <=>
            (exposure_time >= 3 \/ accumulated_radiation >= 300))

\* C2 amended: the alert produced by a tick is true iff the exposure_time held
\* before the tick is >= 3 or the accumulated_radiation held before the tick
\* is >= 300.
C2_TripOnPreTickValues ==
    [][TickDone =>
        ((alert' = 1) <=>
            (exposure_time >= 3 \/ accumulated_radiation >= 300))]_vars

\* a tick has left the accumulator at or above 300 without raising the alert
C2_Witness ==
    count > 0 /\ ~raised /\ alert = 0 /\ accumulated_radiation >= 300

\* C3: the alert_mode after a tick is Critical iff the reading is above
\* limit + 50, Moderate iff it is above limit and at most limit + 50, and Safe
\* otherwise, whatever the state before the tick.
C3_Classification ==
    ~raised =>
        /\ (alert_mode = Critical) <=> (radiation_level > limit + 50)
        /\ (alert_mode = Moderate) <=>
               (radiation_level > limit /\ radiation_level <= limit + 50)
        /\ (alert_mode = Safe) <=> (radiation_level <= limit)

\* a Moderate reading classified right after a run that had reached Critical
C3_Witness ==
    count > 0 /\ ~raised /\ radiation_level = 101 /\ alert_mode = Moderate
              /\ protection_mode = 1

\* C4 as stated: accumulated_radiation is at most 65534, the value 65535 is
\* never held.
C4_NeverHoldsTopValue ==
    accumulated_radiation <= 65534

\* C4 amended: accumulated_radiation is at most 65535, the largest value the
\* 16-bit field represents.
C4_AtMostTopValue ==
    accumulated_radiation <= 65535

\* from 65280 the readings 255, 255: the first sum is exactly 65535, the
\* second is above it and is replaced by 65535 (the log slot 9 holds the
\* reading of the first of the two ticks)
C4_Witness ==
    count = 2 /\ ~raised /\ event_radiation_log[9] = 255
              /\ radiation_level = 255 /\ accumulated_radiation = 65535

\* C5: accumulated_radiation never decreases across a tick.
C5_NonDecreasing ==
    [][accumulated_radiation' >= accumulated_radiation]_vars

\* from 65280 the readings 255, 1: the second tick finds the accumulator at
\* the top of its range and its sum is 65536
C5_Witness ==
    count = 2 /\ ~raised /\ event_radiation_log[9] = 255
              /\ radiation_level = 1 /\ accumulated_radiation = TopValue

\* C6: when the accumulated_radiation held before the tick plus the reading is
\* at most 65535, the accumulated_radiation after the tick is that sum.
C6_ExactSumUnlessOverflow ==
    [][(TickDone /\ accumulated_radiation + radiation_level' <= 65535) =>
          accumulated_radiation' = accumulated_radiation + radiation_level']_vars

\* the sum 65280 + 255 = 65535 has been stored
C6_Witness ==
    count = 1 /\ ~raised /\ radiation_level = 255
              /\ accumulated_radiation = 65535

C8_TickTotalAndSaturating ==
    ~raised /\ exposure_time \in 0 .. 15

\* C9: on a tick that raises the alert, the slot at the previous log_index
\* holds the pair (reading of this tick, alert_mode computed by this tick) and
\* log_index has advanced by one modulo the capacity.
C9_LogsModeOfSameTick ==
    [][(TickDone /\ alert' = 1) =>
          /\ event_radiation_log'[log_index] = radiation_level'
          /\ event_alert_log'[log_index] = alert_mode'
          /\ log_index' = (log_index + 1) % LogCapacity]_vars

\* C10: on a tick whose trip test fails the alert after the tick is false, and
\* a tick that leaves the alert false leaves every slot of both logs and
\* log_index as they were.
C10_NoTripLeavesLog ==
    [][TickDone =>
          /\ (~(exposure_time >= 3 \/ accumulated_radiation >= 300) =>
                 alert' = 0)
          /\ (alert' = 0 =>
                 /\ event_radiation_log' = event_radiation_log
                 /\ event_alert_log' = event_alert_log
                 /\ log_index' = log_index)]_vars

\* a tick of a non-Safe reading has completed without tripping
C10_Witness ==
    count >= 2 /\ ~raised /\ alert = 0 /\ alert_mode # Safe
               /\ accumulated_radiation > 0 /\ log_index = 0

\* C11: once j ticks have tripped, log_index is j mod the capacity and the
\* entry of the i-th trip (from 0) sits in slot i mod the capacity for each of
\* the capacity most recent trips.
C11_CircularOrder ==
    LET j == Len(trip_entries)
    IN  /\ log_index = j % LogCapacity
        /\ \A i \in 0 .. (j - 1) :
              i >= j - LogCapacity =>
                 /\ event_radiation_log[i % LogCapacity] = trip_entries[i + 1][1]
                 /\ event_alert_log[i % LogCapacity] = trip_entries[i + 1][2]

\* trips 630 and 631 (readings 0 and 1) have overwritten slots 9 and 0
C11_Witness ==
    /\ Len(trip_entries) = 631
    /\ log_index = 1
    /\ event_radiation_log[9] = 0
    /\ event_radiation_log[0] = 1

\* C12: log_index is in 0 .. capacity - 1 in every reachable state.
C12_LogIndexInRange ==
    log_index >= 0 /\ log_index < LogCapacity

\* the write at slot 9 has taken the cursor back to 0
C12_Witness ==
    count = 1 /\ ~raised /\ Len(trip_entries) = 630 /\ log_index = 0

\* a state of the session of the reference stimulus after k readings
AfterReading(k) == stimulus # "none" /\ count = k

\* C13 as stated: the readings 45, 75, 150, 90, 200 yield alert_mode Safe, Safe,
\* Critical, Safe, Critical and protection_mode false, false, true, false,
\* true.
C13_ScenarioModesAsStated ==
    /\ AfterReading(1) => (alert_mode = Safe /\ protection_mode = 0)
    /\ AfterReading(2) => (alert_mode = Safe /\ protection_mode = 0)
    /\ AfterReading(3) => (alert_mode = Critical /\ protection_mode = 1)
    /\ AfterReading(4) => (alert_mode = Safe /\ protection_mode = 0)
    /\ AfterReading(5) => (alert_mode = Critical /\ protection_mode = 1)

\* C13 amended: the readings 45, 75, 150, 90, 200 yield alert_mode Safe, Safe,
\* Moderate, Safe, Critical and protection_mode false, false, false, false,
\* true.
C13_ScenarioModes ==
    /\ AfterReading(1) =>
          (radiation_level = 45 /\ alert_mode = Safe /\ protection_mode = 0)
    /\ AfterReading(2) =>
          (radiation_level = 75 /\ alert_mode = Safe /\ protection_mode = 0)
    /\ AfterReading(3) =>
          (radiation_level = 150 /\ alert_mode = Moderate
                                 /\ protection_mode = 0)
    /\ AfterReading(4) =>
          (radiation_level = 90 /\ alert_mode = Safe /\ protection_mode = 0)
    /\ AfterReading(5) =>
          (radiation_level = 200 /\ alert_mode = Critical
                                 /\ protection_mode = 1)

\* the fifth reading of the scenario has been classified
C13_Witness ==
    AfterReading(5) /\ radiation_level = 200 /\ alert_mode = Critical

\* C14: in the scenario alert is false after each of the readings 1 to 4 and
\* true after reading 5, when accumulated_radiation is 560.
C14_ScenarioTrip ==
    /\ \A k \in 1 .. 4 : AfterReading(k) => alert = 0
    /\ AfterReading(5) => (alert = 1 /\ accumulated_radiation = 560)

\* the scenario has run to its fifth reading and the alert is set
C14_Witness ==
    AfterReading(5) /\ alert = 1 /\ accumulated_radiation = 560

\* C15: after the scenario exactly one entry has been written, slot 0 holds
\* (200, Critical), the other slots hold zero and log_index is 1.
C15_ScenarioLog ==
    AfterReading(5) =>
        /\ Len(trip_entries) = 1
        /\ event_radiation_log[0] = 200
        /\ event_alert_log[0] = Critical
        /\ \A i \in 1 .. (LogCapacity - 1) :
               event_radiation_log[i] = 0 /\ event_alert_log[i] = 0
        /\ log_index = 1

\* C16: the stimulus applies at most 30 readings, is stopped as soon as a
\* reading has left alert true, and applies nothing once stopped.
C16_StimulusStops ==
    stimulus # "none" =>
        /\ count <= 30
        /\ (stimulus = "running" => (alert = 0 /\ count < 30))
        /\ (stimulus = "stopped" => ~ENABLED StimulusTick)

\* the stimulus has stopped after the reading that set the alert
C16_Witness ==
    stimulus = "stopped" /\ alert = 1 /\ count = 5

\* C17: alert_mode Critical implies protection_mode 1 and alert_mode Safe
\* implies protection_mode 0.
C17_OneSidedCoupling ==
    /\ (alert_mode = Critical => protection_mode = 1)
    /\ (alert_mode = Safe => protection_mode = 0)

\* a Safe reading has switched off the protection a Critical reading had set
\* (exposure_time counts the non-Safe reading before it)
C17_Witness ==
    count >= 2 /\ ~raised /\ alert_mode = Safe /\ protection_mode = 0
               /\ exposure_time > 0 /\ accumulated_radiation >= 151

\* C18: a tick applied when accumulated_radiation is >= 300 sets alert, writes
\* one log entry, advances log_index by one modulo the capacity and leaves
\* accumulated_radiation >= 300.
C18_LatchedByAccumulator ==
    [][(TickDone /\ accumulated_radiation >= 300) =>
          /\ alert' = 1
          /\ Len(trip_entries') = Len(trip_entries) + 1
          /\ log_index' = (log_index + 1) % LogCapacity
          /\ accumulated_radiation' >= 300]_vars

\* the reading 0 has been ticked with the accumulator above 300: alert set,
\* one more entry
C18_Witness ==
    count >= 2 /\ ~raised /\ radiation_level = 0 /\ exposure_time = 0
               /\ alert = 1 /\ log_index >= 1

\* C19: from any state, no two readings lead to different alert values or to
\* different values of log_index (a log entry is written exactly when
\* log_index moves).
C19_TripIndependentOfReading ==
    /\ ~(/\ ENABLED (Next /\ ~raised' /\ alert' = 0)
         /\ ENABLED (Next /\ ~raised' /\ alert' = 1))
    /\ ~(/\ ENABLED (Next /\ log_index' = log_index)
         /\ ENABLED (Next /\ log_index' # log_index))
    /\ ~(/\ ENABLED (Next /\ log_index' = (log_index + 1) % LogCapacity)
         /\ ENABLED (Next /\ log_index' # (log_index + 1) % LogCapacity))

\* a state from which the reading 255 takes the accumulator over 300 and the
\* reading 0 does not, with a further tick to come
C19_Witness ==
    /\ count >= 1 /\ count < MaxTicks /\ ~raised
    /\ accumulated_radiation < 300
    /\ accumulated_radiation + 255 >= 300

\* C20: from the all-zero state, when readings >= 1 keep coming, alert
\* eventually becomes true.
C20_DoseTripEventually ==
    <>(alert = 1)

\* the alert is set by a tick of a Safe reading that follows a Safe reading
C20_Witness ==
    /\ alert = 1 /\ ~raised
    /\ radiation_level <= limit /\ alert_mode = Safe
    /\ exposure_time = 0 /\ protection_mode = 0

====
